---- MODULE Spec2Model ----
(***************************************************************************)
(* fsdn2plot.py: read a station-name file and a station-code file, fetch   *)
(* one hour of waveforms per station from an FDSN server, process them,    *)
(* draw one panel per station and save the figure.                         *)
(*                                                                         *)
(* Text is a sequence of one-character strings.  Times are centiseconds.   *)
(* A sample is [k, v]: k = "fin" with v in units of 1e-5 m/s2, k = "nan",  *)
(* or k = "inf" with v the sign.  Scaled samples are in 1e-5 cm/s2.        *)
(* Lengths of the figure are tenths of an inch.                            *)
(***************************************************************************)
EXTENDS Integers, Sequences, FiniteSets, TLC

\* ------------------------------------------------------------------ bounds
MaxLines == 2
MaxNameLines == 2
MaxSamples == 2
MaxTall == 8

\* ------------------------------------------------------- program constants
\* lines 45, 55, 56; line 57 (0.5 inch, in tenths of an inch); line 102 (inches)
VENTANA_SEGUNDOS == 3600
IMG_WIDTH_INCHES == 9
IMG_DPI == 100
IMG_HEIGHT_PER_STATION == 5
IMG_HEIGHT_MIN == 3

\* ---------------------------------------------------------- text helpers
IsSpace(c) == c \in {" ", "\t", "\n"}

Tail0(s, n) == SubSeq(s, n + 1, Len(s))

RECURSIVE LStrip(_)
LStrip(s) == IF s # <<>> /\ IsSpace(Head(s)) THEN LStrip(Tail(s)) ELSE s

RECURSIVE RStrip(_)
RStrip(s) ==
    IF s # <<>> /\ IsSpace(s[Len(s)]) THEN RStrip(SubSeq(s, 1, Len(s) - 1)) ELSE s

\* str.strip()
Strip(s) == RStrip(LStrip(s))

\* length of the leading run of non-whitespace characters
RECURSIVE TokenLen(_)
TokenLen(s) == IF s = <<>> \/ IsSpace(Head(s)) THEN 0 ELSE 1 + TokenLen(Tail(s))

\* str.split(): split on runs of whitespace, no empty strings
RECURSIVE SplitWS(_)
SplitWS(s) ==
    LET t == LStrip(s) IN
    IF t = <<>> THEN <<>>
    ELSE LET n == TokenLen(t) IN <<SubSeq(t, 1, n)>> \o SplitWS(Tail0(t, n))

\* str.split(None, 1): first token, then the rest with its leading whitespace removed
SplitWS1(s) ==
    LET t == LStrip(s) IN
    IF t = <<>> THEN <<>>
    ELSE LET n == TokenLen(t)
             rest == LStrip(Tail0(t, n))
         IN IF rest = <<>> THEN <<SubSeq(t, 1, n)>> ELSE <<SubSeq(t, 1, n), rest>>

\* length of the leading run of characters other than "."
RECURSIVE DotLen(_)
DotLen(s) == IF s = <<>> \/ Head(s) = "." THEN 0 ELSE 1 + DotLen(Tail(s))

\* str.split('.'): empty parts are kept
RECURSIVE SplitDot(_)
SplitDot(s) ==
    LET n == DotLen(s) IN
    IF n = Len(s) THEN <<s>>
    ELSE <<SubSeq(s, 1, n)>> \o SplitDot(Tail0(s, n + 1))

\* ---------------------------------------------------------- dict helpers
EmptyDict == [k \in {} |-> <<>>]

DictSet(d, key, val) ==
    [k \in DOMAIN d \cup {key} |-> IF k = key THEN val ELSE d[k]]

\* dict.get(key, default)
DictGet(d, key, default) == IF key \in DOMAIN d THEN d[key] ELSE default

\* ---------------------------------------------------------- file loading
\* a file of the working directory: absent, or its lines
Missing == [exists |-> FALSE, lines |-> <<>>]
File(lines) == [exists |-> TRUE, lines |-> lines]
Files(S) == {File(l) : l \in S}

\* as lines 76-81, with split() in place of split(None, 1): the name is one word
RECURSIVE LoadNombresOneWord(_, _)
LoadNombresOneWord(lines, d) ==
    IF lines = <<>> THEN d
    ELSE LET line == Strip(Head(lines))
             parts == SplitWS(line)
         IN LoadNombresOneWord(Tail(lines),
                IF line # <<>> /\ Len(parts) >= 2 THEN DictSet(d, parts[1], parts[2]) ELSE d)

\* lines 76-81
RECURSIVE LoadNombres(_, _)
LoadNombres(lines, d) ==
    IF lines = <<>> THEN d
    ELSE LET line == Strip(Head(lines))
             parts == SplitWS1(line)
         IN LoadNombres(Tail(lines),
                IF line # <<>> /\ Len(parts) = 2 THEN DictSet(d, parts[1], parts[2]) ELSE d)

\* lines 86-92
RECURSIVE LoadEstaciones(_)
LoadEstaciones(lines) ==
    IF lines = <<>> THEN <<>>
    ELSE LET partes == SplitWS(Strip(Head(lines))) IN
         (IF Len(partes) >= 2
            THEN << [net |-> partes[1], full_sta |-> partes[2],
                     loc |-> <<"*">>, cha |-> <<"H", "*">>] >>
            ELSE <<>>)
         \o LoadEstaciones(Tail(lines))

\* as lines 123-124, taking the last dotted part whatever the number of parts
StaOfLastPart(full_sta) ==
    LET splitted == SplitDot(full_sta) IN splitted[Len(splitted)]

\* lines 123-124
StaOf(full_sta) ==
    LET splitted == SplitDot(full_sta) IN
    IF Len(splitted) = 2 THEN splitted[2] ELSE full_sta

\* ---------------------------------------------------------- numbers
Abs(n) == IF n < 0 THEN -n ELSE n
Max(a, b) == IF a >= b THEN a ELSE b

\* n / d rounded to the nearest integer (n >= 0, d > 0), ties to even
RoundDiv(n, d) ==
    LET q == n \div d
        r == n % d
    IN IF 2 * r > d THEN q + 1
       ELSE IF 2 * r < d THEN q
       ELSE IF q % 2 = 0 THEN q ELSE q + 1

Fin(v) == [k |-> "fin", v |-> v]
NaN == [k |-> "nan", v |-> 0]
Inf(sign) == [k |-> "inf", v |-> sign]

\* np.isfinite
IsFinite(s) == s.k = "fin"

\* as line 139 without the conversion from m/s2 to cm/s2
ScaleNone(s) == s

\* line 139: tr.data * 100.0
Scale(s) == IF s.k = "fin" THEN Fin(s.v * 100) ELSE s
ScaleAll(data) == [j \in 1..Len(data) |-> Scale(data[j])]

\* abs() of one sample
AbsV(s) == IF s.k = "fin" THEN Fin(Abs(s.v)) ELSE IF s.k = "inf" THEN Inf(1) ELSE s

\* ndarray.max() of a non-empty array of absolute values: NaN propagates
ArrMax(a) ==
    IF \E j \in 1..Len(a) : a[j].k = "nan" THEN NaN
    ELSE IF \E j \in 1..Len(a) : a[j].k = "inf" THEN Inf(1)
    ELSE Fin(CHOOSE m \in {a[j].v : j \in 1..Len(a)} :
                 \A j \in 1..Len(a) : a[j].v <= m)

\* abs(data_cm_s2).max()
AbsMax(data) == ArrMax([j \in 1..Len(data) |-> AbsV(data[j])])

\* f"{x:.2f}" of a non-negative value in 1e-5 units: <<tag, hundredths>>
Format2f(x) ==
    IF x.k = "fin" THEN <<"num", RoundDiv(x.v, 1000)>>
    ELSE <<x.k, 0>>

\* line 146
LeftLabelOf(data, s) ==
    LET f == Format2f(AbsMax(data)) IN <<f[1], f[2], s>>

\* line 151
SinDatosLabel(s) == <<"sindatos", 0, s>>

SinDatosSuffix == <<" ", "(", "s", "i", "n", " ", "d", "a", "t", "o", "s", ")">>

\* line 143: max(0, ahora - tr.stats.endtime), centiseconds
LatSec(now, endtime) == Max(0, now - endtime)

\* as line 144 with "<=" in place of "<"
LatStrInclusive(lat) ==
    IF lat <= 60 * 100 THEN <<"s", RoundDiv(lat, 10)>>
    ELSE <<"m", RoundDiv(lat, 60 * 10)>>

\* line 144: <<unit, tenths>>
LatStr(lat) ==
    IF lat < 60 * 100 THEN <<"s", RoundDiv(lat, 10)>>
    ELSE <<"m", RoundDiv(lat, 60 * 10)>>

EmptyStr == <<"", 0>>

\* as line 102 without the per-station term
ImgHeightFixed(n) == IMG_HEIGHT_MIN * 10

\* line 102, tenths of an inch
ImgHeight(n) == Max(IMG_HEIGHT_PER_STATION * n, IMG_HEIGHT_MIN * 10)

\* select the entries of xs at the finite positions of data
RECURSIVE Masked(_, _)
Masked(xs, data) ==
    IF data = <<>> THEN <<>>
    ELSE (IF IsFinite(Head(data)) THEN <<Head(xs)>> ELSE <<>>)
         \o Masked(Tail(xs), Tail(data))

\* tr.times(): sample j of n ends at endtime, one sample per delta
Times(tr) == [j \in 1..Len(tr.data) |-> tr.endtime - (Len(tr.data) - j) * tr.delta]

Values(data) == [j \in 1..Len(data) |-> data[j].v]

\* line 148
BlueTrace(tr) ==
    LET d == ScaleAll(tr.data) IN
    [fmt |-> "b-", x |-> Masked(Times(tr), d), y |-> Masked(Values(d), d)]

\* line 154
RedTrace(t0, t1) == [fmt |-> "r-", x |-> <<t0, t1>>, y |-> <<0, 0>>]

EmptyPanel == [lines |-> <<>>, left |-> <<>>, right |-> <<>>, lat |-> <<>>, xlim |-> <<>>]

\* ---------------------------------------------------------- inputs
SeqsUpTo(S, n) == UNION {[1..m -> S] : m \in 0..n}

\* station-code lines: "C A", "C C.B"
LineA == <<"C", " ", "A">>
LineDotB == <<"C", " ", "C", ".", "B">>
\* blank; whitespace only; one token; two tokens; leading blank, tab, empty
\* part before the dot, extra token, newline; three dotted parts, the last one
\* empty; empty part after the dot
CodeLinesRich ==
    { <<>>, <<"\t", "\n">>, <<"A">>, LineA,
      <<" ", "C", "\t", ".", "B", " ", "x", "\n">>,
      <<"C", " ", "A", ".", "B", ".">>,
      <<"C", " ", "B", ".">> }

\* station-name lines: "A a v", "A", "B  b\n", "A z", blank
NameLineA == <<"A", " ", "a", " ", "v">>
NameLineB == <<"B", " ", " ", "b", "\n">>
NameLinesRich ==
    { NameLineA, <<"A">>, NameLineB, <<"A", " ", "z">>, <<>> }

Samples == {Fin(3), Fin(-27)}

\* what the data server may answer: the processed samples of a trace and how
\* far behind "now" its last sample is (centiseconds; negative = ahead of the
\* clock); delta is the sampling interval
Answer(d, lag) == [data |-> d, lag |-> lag]
RichServer ==
    [traces |-> {Answer(d, 150) : d \in SeqsUpTo(Samples, MaxSamples)}
                \cup {Answer(d, 150) : d \in {<<NaN>>, <<Fin(-27), NaN>>, <<Fin(3), Inf(-1)>>}}
                \cup {Answer(<<Fin(3)>>, lag) : lag \in {-500, 5996, 6000, 7400}},
     delta |-> 1]
PlainServer ==
    [traces |-> {Answer(<<>>, 150), Answer(<<Fin(-27)>>, 150)}, delta |-> 1]

Clock == {720000}

\* ---------------------------------------------------------- state
VARIABLES
    pc,                \* position in the script
    server,            \* environment: answers the data server may give
    nameFile,          \* environment: lista_de_estaciones_por_nombre.txt, or Missing
    codeFile,          \* environment: station-code file, or Missing
    client_fdsn,       \* line 67
    ahora, t_inicio, t_fin,
    estacion_nombres,  \* dict code -> name
    estaciones,        \* list of descriptors
    fig,               \* figure: nrows, width, height, dpi
    ax,                \* one panel per row
    i,                 \* loop index, 1-based
    sta, nombre_estacion,
    st, tr,            \* stream / first trace of the current station
    lat_str, left_label,
    e,                 \* exception caught for the current station, "none" if none
    raised,            \* per finished station: whether its except block ran
    requests,          \* get_waveforms calls made so far
    saved,             \* fdsn2plot.png written
    exitCode           \* process exit status, -1 while running

vars == << pc, server, nameFile, codeFile, client_fdsn, ahora, t_inicio, t_fin,
           estacion_nombres, estaciones, fig, ax, i, sta, nombre_estacion,
           st, tr, lat_str, left_label, e, raised, requests, saved, exitCode >>

env == << server, nameFile, codeFile >>

NoFig == [nrows |-> 0, width |-> 0, height |-> 0, dpi |-> 0]
NoTrace == [data |-> <<>>, endtime |-> 0, delta |-> 0]
UnsetLat == <<"unset", 0>>
UnsetLabel == <<"unset", 0, <<>>>>

InitWith(codeFiles, nameFiles, srv) ==
    /\ pc = "client"
    /\ server = srv
    /\ nameFile \in nameFiles
    /\ codeFile \in codeFiles
    /\ client_fdsn = "none"
    /\ ahora = 0 /\ t_inicio = 0 /\ t_fin = 0
    /\ estacion_nombres = EmptyDict
    /\ estaciones = <<>>
    /\ fig = NoFig
    /\ ax = <<>>
    /\ i = 0
    /\ sta = <<>> /\ nombre_estacion = <<>>
    /\ st = "none" /\ tr = NoTrace
    /\ lat_str = UnsetLat /\ left_label = UnsetLabel
    /\ e = "none"
    /\ raised = <<>>
    /\ requests = <<>>
    /\ saved = FALSE
    /\ exitCode = -1

\* many answers of the server, short files of alternating stations
Init ==
    InitWith({Missing} \cup {File([j \in 1..n |-> IF j % 2 = 1 THEN LineA ELSE LineDotB]) :
                                 n \in 0..MaxLines},
             {Missing, File(<<NameLineA>>)}, RichServer)

\* few answers of the server; many shapes of station files with two name
\* files, or many shapes of name files with one station file
InitParse ==
    \/ InitWith({Missing} \cup Files(SeqsUpTo(CodeLinesRich, MaxLines)),
                {Missing, File(<<NameLineA, NameLineB>>)}, PlainServer)
    \/ InitWith({File(<<LineA, LineDotB>>)},
                Files(SeqsUpTo(NameLinesRich, MaxNameLines)), PlainServer)

\* long station files, few answers of the server
InitTall ==
    InitWith({File([j \in 1..n |-> IF j % 3 = 0 THEN LineDotB ELSE LineA]) : n \in 0..MaxTall},
             {File(<<NameLineA>>)}, PlainServer)

\* ---------------------------------------------------------- actions
\* an exception nobody catches: traceback, exit status 1
Abort ==
    /\ pc' = "exit"
    /\ exitCode' = 1

\* lines 67-71
NewClient ==
    /\ pc = "client"
    /\ client_fdsn' = "client"
    /\ \E now \in Clock :
         /\ ahora' = now
         /\ t_inicio' = now - VENTANA_SEGUNDOS * 100
         /\ t_fin' = now
    /\ pc' = "names"
    /\ UNCHANGED << env, estacion_nombres, estaciones, fig, ax, i, sta, nombre_estacion,
                    st, tr, lat_str, left_label, e, raised, requests, saved, exitCode >>

\* line 67: Client() raises (server unreachable)
NewClientRaises ==
    /\ pc = "client"
    /\ Abort
    /\ UNCHANGED << env, client_fdsn, ahora, t_inicio, t_fin, estacion_nombres, estaciones,
                    fig, ax, i, sta, nombre_estacion, st, tr, lat_str, left_label, e,
                    raised, requests, saved >>

\* as lines 74-81, a missing name file read as an empty one
ReadNombresOptional ==
    /\ pc = "names"
    /\ estacion_nombres' = LoadNombres(nameFile.lines, EmptyDict)
    /\ pc' = "codes"
    /\ UNCHANGED << env, client_fdsn, ahora, t_inicio, t_fin, estaciones, fig, ax, i, sta,
                    nombre_estacion, st, tr, lat_str, left_label, e, raised, requests, saved,
                    exitCode >>

\* lines 74-81
ReadNombres ==
    /\ pc = "names"
    /\ IF nameFile = Missing
         THEN Abort /\ UNCHANGED estacion_nombres
         ELSE /\ estacion_nombres' = LoadNombres(nameFile.lines, EmptyDict)
              /\ pc' = "codes"
              /\ UNCHANGED exitCode
    /\ UNCHANGED << env, client_fdsn, ahora, t_inicio, t_fin, estaciones, fig, ax, i, sta,
                    nombre_estacion, st, tr, lat_str, left_label, e, raised, requests, saved >>

\* lines 84-92
ReadEstaciones ==
    /\ pc = "codes"
    /\ IF codeFile = Missing
         THEN Abort /\ UNCHANGED estaciones
         ELSE /\ estaciones' = LoadEstaciones(codeFile.lines)
              /\ pc' = "check"
              /\ UNCHANGED exitCode
    /\ UNCHANGED << env, client_fdsn, ahora, t_inicio, t_fin, estacion_nombres, fig, ax, i,
                    sta, nombre_estacion, st, tr, lat_str, left_label, e, raised, requests,
                    saved >>

\* as lines 94-96 with sys.exit(0)
CheckEstacionesExitZero ==
    /\ pc = "check"
    /\ IF estaciones = <<>>
         THEN pc' = "exit" /\ exitCode' = 0
         ELSE pc' = "figure" /\ UNCHANGED exitCode
    /\ UNCHANGED << env, client_fdsn, ahora, t_inicio, t_fin, estacion_nombres, estaciones,
                    fig, ax, i, sta, nombre_estacion, st, tr, lat_str, left_label, e,
                    raised, requests, saved >>

\* lines 94-96
CheckEstaciones ==
    /\ pc = "check"
    /\ IF estaciones = <<>>
         THEN pc' = "exit" /\ exitCode' = 1
         ELSE pc' = "figure" /\ UNCHANGED exitCode
    /\ UNCHANGED << env, client_fdsn, ahora, t_inicio, t_fin, estacion_nombres, estaciones,
                    fig, ax, i, sta, nombre_estacion, st, tr, lat_str, left_label, e,
                    raised, requests, saved >>

\* lines 102-116; plt.subplots(nrows=0) raises ValueError
Figure ==
    /\ pc = "figure"
    /\ IF Len(estaciones) = 0
         THEN Abort /\ UNCHANGED << fig, ax, i >>
         ELSE /\ fig' = [nrows |-> Len(estaciones), width |-> IMG_WIDTH_INCHES * 10,
                         height |-> ImgHeight(Len(estaciones)), dpi |-> IMG_DPI]
              /\ ax' = [j \in 1..Len(estaciones) |-> EmptyPanel]
              /\ i' = 1
              /\ pc' = "loop"
              /\ UNCHANGED exitCode
    /\ UNCHANGED << env, client_fdsn, ahora, t_inicio, t_fin, estacion_nombres, estaciones,
                    sta, nombre_estacion, st, tr, lat_str, left_label, e, raised, requests,
                    saved >>

\* lines 122-125: next station; st and tr are rebound (lines 128, 138) before any use
LoopHead ==
    /\ pc = "loop"
    /\ i <= Len(estaciones)
    /\ sta' = StaOf(estaciones[i].full_sta)
    /\ nombre_estacion' = DictGet(estacion_nombres, sta', sta')
    /\ st' = "none" /\ tr' = NoTrace
    /\ e' = "none"
    /\ pc' = "fetch"
    /\ UNCHANGED << env, client_fdsn, ahora, t_inicio, t_fin, estacion_nombres, estaciones,
                    fig, ax, i, lat_str, left_label, raised, requests, saved, exitCode >>

Request == [network |-> estaciones[i].net, station |-> sta,
            location |-> estaciones[i].loc, channel |-> estaciones[i].cha,
            starttime |-> t_inicio, endtime |-> t_fin]

\* lines 128-131
GetWaveforms ==
    /\ pc = "fetch"
    /\ requests' = Append(requests, Request)
    /\ st' = "stream"
    /\ pc' = "process"
    /\ UNCHANGED << env, client_fdsn, ahora, t_inicio, t_fin, estacion_nombres, estaciones,
                    fig, ax, i, sta, nombre_estacion, tr, lat_str, left_label, e, raised,
                    saved, exitCode >>

\* as lines 128-131 with one retry of a failed request
GetWaveformsRetries ==
    /\ pc = "fetch"
    /\ requests' = requests \o <<Request, Request>>
    /\ e' = "fetch"
    /\ pc' = "except"
    /\ UNCHANGED << env, client_fdsn, ahora, t_inicio, t_fin, estacion_nombres, estaciones,
                    fig, ax, i, sta, nombre_estacion, st, tr, lat_str, left_label, raised,
                    saved, exitCode >>

\* lines 128-131: no data, timeout, HTTP error
GetWaveformsRaises ==
    /\ pc = "fetch"
    /\ requests' = Append(requests, Request)
    /\ e' = "fetch"
    /\ pc' = "except"
    /\ UNCHANGED << env, client_fdsn, ahora, t_inicio, t_fin, estacion_nombres, estaciones,
                    fig, ax, i, sta, nombre_estacion, st, tr, lat_str, left_label, raised,
                    saved, exitCode >>

\* lines 133-136
Process ==
    /\ pc = "process"
    /\ pc' = "trace"
    /\ UNCHANGED << env, client_fdsn, ahora, t_inicio, t_fin, estacion_nombres, estaciones,
                    fig, ax, i, sta, nombre_estacion, st, tr, lat_str, left_label, e, raised,
                    requests, saved, exitCode >>

\* lines 133-136: missing response metadata, filter error
ProcessRaises ==
    /\ pc = "process"
    /\ e' = "process"
    /\ pc' = "except"
    /\ UNCHANGED << env, client_fdsn, ahora, t_inicio, t_fin, estacion_nombres, estaciones,
                    fig, ax, i, sta, nombre_estacion, st, tr, lat_str, left_label, raised,
                    requests, saved, exitCode >>

NewTrace(d, lag) == [data |-> d, endtime |-> ahora - lag, delta |-> server.delta]

\* lines 138-148
Trace ==
    /\ pc = "trace"
    /\ \E a \in server.traces :
         /\ a.data # <<>>
         /\ tr' = NewTrace(a.data, a.lag)
         /\ lat_str' = LatStr(LatSec(ahora, tr'.endtime))
         /\ left_label' = LeftLabelOf(ScaleAll(a.data), sta)
         /\ ax' = [ax EXCEPT ![i].lines = Append(@, BlueTrace(tr'))]
    /\ pc' = "texts"
    /\ UNCHANGED << env, client_fdsn, ahora, t_inicio, t_fin, estacion_nombres, estaciones,
                    fig, i, sta, nombre_estacion, st, e, raised, requests, saved, exitCode >>

\* lines 138-146: max() of an empty array raises ValueError; lat_str is already assigned
TraceLabelRaises ==
    /\ pc = "trace"
    /\ \E a \in server.traces :
         /\ a.data = <<>>
         /\ tr' = NewTrace(a.data, a.lag)
         /\ lat_str' = LatStr(LatSec(ahora, tr'.endtime))
    /\ e' = "label"
    /\ pc' = "except"
    /\ UNCHANGED << env, client_fdsn, ahora, t_inicio, t_fin, estacion_nombres, estaciones,
                    fig, ax, i, sta, nombre_estacion, st, left_label, raised, requests,
                    saved, exitCode >>

\* lines 138-148: ax[i].plot raises; lat_str and left_label are already assigned
TracePlotRaises ==
    /\ pc = "trace"
    /\ \E a \in server.traces :
         /\ a.data # <<>>
         /\ tr' = NewTrace(a.data, a.lag)
         /\ lat_str' = LatStr(LatSec(ahora, tr'.endtime))
         /\ left_label' = LeftLabelOf(ScaleAll(a.data), sta)
    /\ e' = "plot"
    /\ pc' = "except"
    /\ UNCHANGED << env, client_fdsn, ahora, t_inicio, t_fin, estacion_nombres, estaciones,
                    fig, ax, i, sta, nombre_estacion, st, raised, requests, saved, exitCode >>

\* as lines 150-154 with the exception raised again
ExceptReraises ==
    /\ pc = "except"
    /\ Abort
    /\ UNCHANGED << env, client_fdsn, ahora, t_inicio, t_fin, estacion_nombres, estaciones,
                    fig, ax, i, sta, nombre_estacion, st, tr, lat_str, left_label, e, raised,
                    requests, saved >>

\* as lines 150-154 without line 153
ExceptKeepsLatency ==
    /\ pc = "except"
    /\ left_label' = SinDatosLabel(sta)
    /\ nombre_estacion' = nombre_estacion \o SinDatosSuffix
    /\ ax' = [ax EXCEPT ![i].lines = Append(@, RedTrace(t_inicio, t_fin))]
    /\ pc' = "texts"
    /\ UNCHANGED << env, client_fdsn, ahora, t_inicio, t_fin, estacion_nombres, estaciones,
                    fig, i, sta, st, tr, lat_str, e, raised, requests, saved, exitCode >>

\* lines 150-154
Except ==
    /\ pc = "except"
    /\ left_label' = SinDatosLabel(sta)
    /\ nombre_estacion' = nombre_estacion \o SinDatosSuffix
    /\ lat_str' = EmptyStr
    /\ ax' = [ax EXCEPT ![i].lines = Append(@, RedTrace(t_inicio, t_fin))]
    /\ pc' = "texts"
    /\ UNCHANGED << env, client_fdsn, ahora, t_inicio, t_fin, estacion_nombres, estaciones,
                    fig, i, sta, st, tr, e, raised, requests, saved, exitCode >>

\* lines 156-166, then back to the loop head
Texts ==
    /\ pc = "texts"
    /\ ax' = [ax EXCEPT ![i].left = Append(@, left_label),
                        ![i].right = Append(@, nombre_estacion),
                        ![i].lat = IF lat_str[1] # "" THEN Append(@, lat_str) ELSE @,
                        ![i].xlim = <<t_inicio, t_fin>>]
    /\ raised' = Append(raised, e # "none")
    /\ i' = i + 1
    /\ pc' = "loop"
    /\ UNCHANGED << env, client_fdsn, ahora, t_inicio, t_fin, estacion_nombres, estaciones,
                    fig, sta, nombre_estacion, st, tr, lat_str, left_label, e, requests,
                    saved, exitCode >>

\* lines 172-181: the loop is over; axis, savefig, show, normal end
Save ==
    /\ pc = "loop"
    /\ i > Len(estaciones)
    /\ saved' = TRUE
    /\ pc' = "exit"
    /\ exitCode' = 0
    /\ UNCHANGED << env, client_fdsn, ahora, t_inicio, t_fin, estacion_nombres, estaciones,
                    fig, ax, i, sta, nombre_estacion, st, tr, lat_str, left_label, e, raised,
                    requests >>

Next ==
    \/ NewClient
    \/ NewClientRaises
    \/ ReadNombres
    \/ ReadEstaciones
    \/ CheckEstaciones
    \/ Figure
    \/ LoopHead
    \/ GetWaveforms
    \/ GetWaveformsRaises
    \/ Process
    \/ ProcessRaises
    \/ Trace
    \/ TraceLabelRaises
    \/ TracePlotRaises
    \/ Except
    \/ Texts
    \/ Save

Spec == Init /\ [][Next]_vars
SpecParse == InitParse /\ [][Next]_vars
SpecTall == InitTall /\ [][Next]_vars

\* ---------------------------------------------------------- vocabulary of the properties
\* positions where a whitespace-separated token of the line starts / ends
TokStarts(line) ==
    {p \in 1..Len(line) : ~IsSpace(line[p]) /\ (p = 1 \/ IsSpace(line[p - 1]))}
TokEnds(line) ==
    {p \in 1..Len(line) : ~IsSpace(line[p]) /\ (p = Len(line) \/ IsSpace(line[p + 1]))}
TokenCount(line) == Cardinality(TokStarts(line))

NthOf(S, n) == CHOOSE p \in S : Cardinality({q \in S : q < p}) = n - 1

\* the n-th whitespace-separated token of the line
NthToken(line, n) == SubSeq(line, NthOf(TokStarts(line), n), NthOf(TokEnds(line), n))

\* the line from its second token to its last non-blank character
RestOfLine(line) ==
    SubSeq(line, NthOf(TokStarts(line), 2), NthOf(TokEnds(line), TokenCount(line)))

\* indices of the station-file lines that carry an entry
ValidLines == {l \in 1..Len(codeFile.lines) : TokenCount(codeFile.lines[l]) >= 2}
NumEntries == Cardinality(ValidLines)
HasEntries == codeFile.exists /\ NumEntries > 0

\* the line of the station file that carries the j-th entry
LineOfEntry(j) == codeFile.lines[NthOf(ValidLines, j)]

\* the station code of the j-th entry
CodeOfEntry(j) ==
    LET id == NthToken(LineOfEntry(j), 2)
        dots == {p \in 1..Len(id) : id[p] = "."}
    IN IF Cardinality(dots) = 1
         THEN LET p == CHOOSE q \in dots : TRUE IN SubSeq(id, p + 1, Len(id))
         ELSE id

\* lines of the name file that give the code a name
NamingLines(code) ==
    {l \in 1..Len(nameFile.lines) :
        /\ TokenCount(nameFile.lines[l]) >= 2
        /\ NthToken(nameFile.lines[l], 1) = code}

\* the name the name file gives the code (its last such line), or the code itself
NameOrCode(code) ==
    IF NamingLines(code) = {} THEN code
    ELSE RestOfLine(nameFile.lines[NthOf(NamingLines(code), Cardinality(NamingLines(code)))])

\* station j is finished: its texts are drawn
Done == 1..Len(raised)

\* the station file has been read
Loaded == pc \in {"check", "figure", "loop", "fetch", "process", "trace", "except", "texts"}
          \/ (pc = "exit" /\ client_fdsn = "client" /\ nameFile.exists /\ codeFile.exists)

\* the last finished station was processed without an exception and tr is still its trace
LastOk == pc \in {"loop", "exit"} /\ i >= 2 /\ Len(raised) = i - 1 /\ ~raised[i - 1]

\* ---------------------------------------------------------- properties
\* C1: a station whose fetch or processing raised is drawn as one flat red
\* zero trace over the time window with the left label "[Sin datos] <code>",
\* and the run goes on: once the figure exists, the run only ends after every
\* station was processed and the image was saved.
C1_FailedStationDegrades ==
    /\ \A j \in Done :
         raised[j] =>
           /\ ax[j].lines = << [fmt |-> "r-", x |-> <<ahora - 360000, ahora>>, y |-> <<0, 0>>] >>
           /\ ax[j].left = << <<"sindatos", 0, CodeOfEntry(j)>> >>
    /\ pc = "except" => fig # NoFig /\ exitCode = -1
    /\ (pc = "exit" /\ fig # NoFig) =>
         /\ Len(raised) = NumEntries
         /\ saved
         /\ exitCode = 0

C1_Witness ==
    /\ pc = "exit" /\ saved
    /\ Len(raised) >= 2
    /\ raised[1] /\ ~raised[2]

\* C2: with the station file missing or without any line of two tokens the
\* run ends with exit code 1, no figure is made and nothing is saved.
C2_NoStationsNoImage ==
    ~HasEntries =>
      /\ ~saved
      /\ fig = NoFig
      /\ pc \notin {"figure", "loop", "fetch", "process", "trace", "except", "texts"}
      /\ pc = "exit" => exitCode = 1

C2_Witness ==
    /\ pc = "exit" /\ exitCode = 1
    /\ client_fdsn = "client" /\ nameFile.exists
    /\ codeFile.exists /\ codeFile.lines # <<>> /\ ~HasEntries

\* C3 as stated: exit code 1 if the station list is empty and 0 otherwise.
C3_Original ==
    pc = "exit" => exitCode = (IF HasEntries THEN 0 ELSE 1)

\* C3 amended: exit code 1 if the station list is empty or start-up raised
\* (client not constructed, name file or station file missing), 0 otherwise,
\* whatever stations failed.
C3_ExitCode ==
    pc = "exit" =>
      exitCode = (IF client_fdsn = "none" \/ ~nameFile.exists \/ ~HasEntries THEN 1 ELSE 0)

C3_Witness ==
    /\ pc = "exit" /\ exitCode = 0
    /\ \E j \in Done : raised[j]
    /\ \E j \in Done : ~raised[j]

\* C4: the figure has one panel per entry of the station file, duplicates
\* included, is 9 inches wide and max(0.5 * N, 3) inches high, and every panel
\* of the saved image is drawn.
C4_PanelsAndHeight ==
    /\ fig # NoFig =>
         /\ fig.nrows = NumEntries
         /\ Len(ax) = NumEntries
         /\ fig.width = 90
         /\ fig.height = (IF 5 * NumEntries >= 30 THEN 5 * NumEntries ELSE 30)
    /\ saved => \A j \in 1..NumEntries : Len(ax[j].lines) = 1 /\ Len(ax[j].left) = 1

C4_Witness ==
    /\ saved
    /\ fig.nrows = 8 /\ fig.height = 40
    /\ CodeOfEntry(1) = CodeOfEntry(2)

\* largest |sample * 100| of the trace, in 1e-5 cm/s2 (finite samples)
PeakOf(data) ==
    LET S == {Abs(data[j].v * 100) : j \in 1..Len(data)}
    IN CHOOSE m \in S : \A x \in S : x <= m

AllFinite(data) == \A j \in 1..Len(data) : data[j].k = "fin"
SomeNaN(data) == \E j \in 1..Len(data) : data[j].k = "nan"

\* the left label drawn on the last finished panel
LastLeft == ax[i - 1].left[1]

\* C5 as stated: the number in the left label of a processed station equals
\* the maximum of |sample * 100| over its samples (label in 0.01 cm/s2).
C5_Original ==
    LastOk => LastLeft[1] = "num" /\ LastLeft[2] * 1000 = PeakOf(tr.data)

\* C5 amended: the number is that maximum rounded to two decimals; it is "nan"
\* when a sample is NaN and "inf" when a sample is infinite and none is NaN.
C5_PeakLabelRounded ==
    LastOk =>
      /\ Len(ax[i - 1].left) = 1
      /\ LastLeft[3] = CodeOfEntry(i - 1)
      /\ IF SomeNaN(tr.data) THEN LastLeft[1] = "nan"
         ELSE IF ~AllFinite(tr.data) THEN LastLeft[1] = "inf"
         ELSE /\ LastLeft[1] = "num"
              /\ 2 * Abs(LastLeft[2] * 1000 - PeakOf(tr.data)) <= 1000

C5_Witness ==
    /\ LastOk
    /\ Len(tr.data) = 2 /\ AllFinite(tr.data)
    /\ tr.data[1] # tr.data[2]
    /\ LastLeft = <<"num", 3, <<"A">>>>

\* C6 as stated: the name on every panel is the name the name file gives the
\* station code, or the bare code when the file gives none.
C6_Original ==
    \A j \in Done : ax[j].right = << NameOrCode(CodeOfEntry(j)) >>

\* C6 amended: that holds for the stations processed without an exception; a
\* station drawn as "no data" shows the same name followed by " (sin datos)".
C6_DisplayName ==
    \A j \in Done :
      ax[j].right = << IF raised[j]
                         THEN NameOrCode(CodeOfEntry(j))
                              \o <<" ", "(", "s", "i", "n", " ", "d", "a", "t", "o", "s", ")">>
                         ELSE NameOrCode(CodeOfEntry(j)) >>

C6_Witness ==
    /\ Len(raised) = 2
    /\ ~raised[1] /\ raised[2]
    /\ CodeOfEntry(1) = <<"A">> /\ ax[1].right = << <<"a", " ", "v">> >>
    /\ CodeOfEntry(2) = <<"B">> /\ ax[2].right[1][1] = "B"
    /\ Len(nameFile.lines) = 2

\* the latency text drawn on the last finished panel, and that station's latency
LastLat == ax[i - 1].lat[1]
LastLag == IF ahora - tr.endtime >= 0 THEN ahora - tr.endtime ELSE 0

\* C7: a latency text is drawn exactly on the panels of the stations processed
\* without an exception; it shows now minus the end of the trace, at least 0,
\* in seconds (one decimal) below 60 s and in minutes (one decimal) from 60 s.
C7_LatencyLabel ==
    /\ \A j \in Done : Len(ax[j].lat) = (IF raised[j] THEN 0 ELSE 1)
    /\ LastOk =>
         /\ LastLat[2] >= 0
         /\ IF LastLag < 6000
              THEN LastLat[1] = "s" /\ 2 * Abs(LastLat[2] * 10 - LastLag) <= 10
              ELSE LastLat[1] = "m" /\ 2 * Abs(LastLat[2] * 600 - LastLag) <= 600

C7_Witness ==
    /\ LastOk
    /\ ahora - tr.endtime = 6000
    /\ LastLat = <<"m", 10>>
    /\ \E j \in Done : raised[j]

\* the request the j-th entry of the station file calls for
RequestOfEntry(j) ==
    [network |-> NthToken(LineOfEntry(j), 1), station |-> CodeOfEntry(j),
     location |-> <<"*">>, channel |-> <<"H", "*">>,
     starttime |-> ahora - 360000, endtime |-> ahora]

\* C8: requests go out in file order, one per entry, the k-th request for the
\* k-th entry, never a second one for the same entry; a request is made only
\* when all earlier stations are finished; panel j belongs to entry j; the
\* image is saved only when every station is finished.
C8_OneRequestPerEntryInOrder ==
    /\ Len(requests) <= NumEntries
    /\ \A k \in 1..Len(requests) : requests[k] = RequestOfEntry(k)
    /\ Len(raised) <= Len(requests) /\ Len(requests) <= Len(raised) + 1
    /\ pc \in {"process", "trace", "except", "texts"} => Len(requests) = i
    /\ \A j \in Done : ax[j].left[1][3] = CodeOfEntry(j) /\ Len(ax[j].lines) = 1
    /\ \A j \in 1..Len(ax) : j \notin Done /\ ~(j = i /\ pc = "texts") => ax[j].lines = <<>>
    /\ saved => Len(requests) = NumEntries /\ Len(raised) = NumEntries

C8_Witness ==
    /\ saved
    /\ Len(requests) = 2
    /\ requests[1].station = <<"B">> /\ requests[2].station = <<"A">>
    /\ raised = <<TRUE, FALSE>>

\* C9: every line of the station file with two or more tokens gives one
\* descriptor (first token, second token, "*", "H*"), other lines give none;
\* the station code (after the dot when the identifier has exactly one dot,
\* else the whole identifier) is what is fetched, looked up and labelled.
C9_StationFileParsing ==
    /\ Loaded =>
         /\ Len(estaciones) = NumEntries
         /\ \A j \in 1..NumEntries :
              estaciones[j] = [net |-> NthToken(LineOfEntry(j), 1),
                               full_sta |-> NthToken(LineOfEntry(j), 2),
                               loc |-> <<"*">>, cha |-> <<"H", "*">>]
    /\ pc \in {"fetch", "process", "trace", "except", "texts"} => sta = CodeOfEntry(i)
    /\ pc \in {"fetch", "process", "trace"} => nombre_estacion = NameOrCode(CodeOfEntry(i))
    /\ \A k \in 1..Len(requests) : requests[k].station = CodeOfEntry(k)
    /\ \A j \in Done :
         /\ ax[j].left[1][3] = CodeOfEntry(j)
         /\ SubSeq(ax[j].right[1], 1, Len(NameOrCode(CodeOfEntry(j)))) = NameOrCode(CodeOfEntry(j))

C9_Witness ==
    /\ saved
    /\ Len(codeFile.lines) = 2
    /\ Len(codeFile.lines[1]) = 8 /\ Len(codeFile.lines[2]) = 6
    /\ requests[1].station = <<"B">>
    /\ requests[2].station = <<"A", ".", "B", ".">>

\* C10: every finished panel carries exactly one trace and one left and one
\* right text, all from its own station: a failed station the red trace, the
\* "no data" label of its own code, its own name with the suffix and no
\* latency text; a processed station a blue trace, the peak label of its own
\* code and data, its own name and the latency of its own trace.  What is about
\* to be drawn (pc = "texts") is already of the current station.
C10_NoLabelLeak ==
    /\ \A j \in Done :
         /\ Len(ax[j].lines) = 1 /\ Len(ax[j].left) = 1 /\ Len(ax[j].right) = 1
         /\ ax[j].left[1][3] = CodeOfEntry(j)
         /\ IF raised[j]
              THEN /\ ax[j].lines[1].fmt = "r-"
                   /\ ax[j].left[1][1] = "sindatos"
                   /\ ax[j].lat = <<>>
                   /\ ax[j].right[1] = NameOrCode(CodeOfEntry(j)) \o SinDatosSuffix
              ELSE /\ ax[j].lines[1].fmt = "b-"
                   /\ ax[j].left[1][1] \in {"num", "nan", "inf"}
                   /\ Len(ax[j].lat) = 1 /\ ax[j].lat[1][1] \in {"s", "m"}
                   /\ ax[j].right[1] = NameOrCode(CodeOfEntry(j))
    /\ LastOk =>
         /\ LastLeft = LeftLabelOf(ScaleAll(tr.data), CodeOfEntry(i - 1))
         /\ LastLat = LatStr(LatSec(ahora, tr.endtime))
    /\ pc = "texts" =>
         /\ left_label[3] = CodeOfEntry(i)
         /\ (e # "none") = (left_label[1] = "sindatos")
         /\ (e # "none") = (lat_str = <<"", 0>>)
         /\ Len(ax[i].lines) = 1 /\ ax[i].left = <<>> /\ ax[i].lat = <<>>

C10_Witness ==
    /\ pc = "loop" /\ Len(raised) = 2
    /\ ~raised[1] /\ raised[2]
    /\ e = "label"
    /\ ax[1].lat # <<>> /\ ax[2].lat = <<>>

====
